---- MODULE Spec2Model ----
(***************************************************************************)
(* Model of sdnist/utils.py: create_bins, discretize and undo_discretize.  *)
(* A caller owns a schema, a bin specification, a bin table and a table    *)
(* (pandas.DataFrame) of raw or of coded values, and calls the three       *)
(* functions on them.  Tables are sequences of columns in DataFrame column *)
(* order; a column is a name and the sequence of its cell values.  Cell    *)
(* values are numbers: floats are modelled by integers, with np.inf and    *)
(* -np.inf as two absorbing sentinels.  The `values` of a schema field are *)
(* of one dtype, so that np.array(values) keeps its elements, and numeric  *)
(* columns hold numbers, so that pd.to_numeric keeps them.  input, raw and *)
(* origin record the table of the last call and where the table came from. *)
(***************************************************************************)
EXTENDS Integers, Sequences, FiniteSets, TLC

VARIABLES schema, bins_range, bins, dataset, stage, origin, raw, input, ret, op

vars == <<schema, bins_range, bins, dataset, stage, origin, raw, input, ret, op>>

\* ---------------------------------------------------------------- bounds
MaxCols == 2
MaxRows == 2
MaxCode == 4

\* ------------------------------------------------------- extended numbers
PosInf == 1000000
NegInf == 0 - PosInf

IsInf(x) == x = PosInf \/ x = NegInf

\* float addition: an infinity absorbs every finite addend
Plus(x, y) == IF IsInf(x) THEN x ELSE IF IsInf(y) THEN y ELSE x + y

Range(s) == {s[i] : i \in 1..Len(s)}

\* ------------------------------------------------------------ create_bins
\* ArangeLen with the stop value included
ArangeLenInclusive(start, stop, step) ==
    IF step > 0
    THEN IF stop >= start THEN ((stop - start) \div step) + 1 ELSE 0
    ELSE IF stop <= start THEN ((start - stop) \div (0 - step)) + 1 ELSE 0

\* number of elements of np.arange(start, stop, step) / range(start, stop, step)
ArangeLen(start, stop, step) ==
    IF step > 0
    THEN IF stop > start THEN ((stop - start) + step - 1) \div step ELSE 0
    ELSE IF stop < start THEN ((start - stop) + (0 - step) - 1) \div (0 - step) ELSE 0

\* np.arange(start, stop, step) for step # 0
Arange(start, stop, step) ==
    [k \in 1..ArangeLen(start, stop, step) |-> start + (k - 1) * step]

\* TimePoints with the loops exchanged: minute-major order
TimePointsMinuteMajor(fbm, lbm, bs) ==
    LET hours == Arange(fbm, lbm, 1)
        mins  == Arange(0, 60, bs)
        n     == Len(hours)
    IN  [k \in 1..(Len(mins) * n) |->
            hours[((k - 1) % n) + 1] * 100 + mins[((k - 1) \div n) + 1]]

\* [h * 100 + m for h in range(fbm, lbm) for m in range(0, 60, bs)], bs # 0
TimePoints(fbm, lbm, bs) ==
    LET hours == Arange(fbm, lbm, 1)
        mins  == Arange(0, 60, bs)
        n     == Len(mins)
    IN  [k \in 1..(Len(hours) * n) |->
            hours[((k - 1) \div n) + 1] * 100 + mins[((k - 1) % n) + 1]]

\* the exception one entry of bins_range raises, or "ok"
BinEntryStatus(br) ==
    IF "bin_type" \notin DOMAIN br
    THEN IF br.bin_size = 0 THEN "ZeroDivisionError" ELSE "ok"
    ELSE IF br.bin_type = "time"
         THEN IF br.bin_size_minutes = 0
                 /\ ArangeLen(br.first_bin_max_hour, br.last_bin_min_hour, 1) > 0
              THEN "ValueError" ELSE "ok"
         ELSE "ok"

\* does the entry get a bin table (an unknown bin_type is skipped silently)
BinEntryBinned(br) == "bin_type" \notin DOMAIN br \/ br.bin_type = "time"

\* the value stored in bins[f] for one entry
BinEntryTable(br) ==
    IF "bin_type" \notin DOMAIN br
    THEN <<NegInf>> \o Arange(br.first_bin_max, br.last_bin_min, br.bin_size)
                    \o <<PosInf>>
    ELSE <<NegInf>> \o TimePoints(br.first_bin_max_hour, br.last_bin_min_hour,
                                  br.bin_size_minutes)
                    \o <<PosInf>>

\* last entry of the bin specification for field f (dict semantics)
SpecOf(range, f) ==
    range[CHOOSE i \in 1..Len(range) : range[i].field = f].spec

\* create_bins(bins_range): [status, value, at]; the first failing entry, the
\* at-th, raises
create_bins(range) ==
    LET bad   == {i \in 1..Len(range) : BinEntryStatus(range[i].spec) # "ok"}
        first == CHOOSE i \in bad : \A j \in bad : i <= j
    IN  IF bad # {}
        THEN [status |-> BinEntryStatus(range[first].spec),
              value  |-> <<>>,
              at     |-> first]
        ELSE [status |-> "ok",
              at     |-> 0,
              value  |-> [f \in {range[i].field : i \in
                                   {j \in 1..Len(range) : BinEntryBinned(range[j].spec)}}
                          |-> BinEntryTable(SpecOf(range, f))]]

\* ----------------------------------------------------------- pandas/numpy
\* Series.replace(a, b)
Replace(vals, a, b) == [r \in 1..Len(vals) |-> IF vals[r] = a THEN b ELSE vals[r]]

\* pandas raises "bins must increase monotonically." when a diff is negative
Monotonic(b) == \A i \in 1..(Len(b) - 1) : b[i] <= b[i + 1]

\* code of pd.cut(x, b, right=False): index of the bin [b[i], b[i+1]), else -1
CutCode(x, b) ==
    IF \E i \in 1..(Len(b) - 1) : b[i] <= x /\ x < b[i + 1]
    THEN (CHOOSE i \in 1..(Len(b) - 1) : b[i] <= x /\ x < b[i + 1]) - 1
    ELSE 0 - 1

\* CatCode with 1-based positions
CatCodeOneBased(x, values) ==
    IF \E i \in 1..Len(values) : values[i] = x
    THEN CHOOSE i \in 1..Len(values) : values[i] = x
    ELSE 0 - 1

\* code of astype(pd.CategoricalDtype(values)).cat.codes
CatCode(x, values) ==
    IF \E i \in 1..Len(values) : values[i] = x
    THEN (CHOOSE i \in 1..Len(values) : values[i] = x) - 1
    ELSE 0 - 1

\* is i a legal numpy index into an array of length n
IndexOk(n, i) == (0 - n) <= i /\ i < n

\* arr[i] with numpy's wrap-around of negative indices
NpIndex(arr, i) == IF i >= 0 THEN arr[i + 1] ELSE arr[Len(arr) + i + 1]

\* ------------------------------------------------------------- discretize
\* body of the column loop of discretize: [status, values]; on an exception
\* values is what the column holds at the time it is raised
DiscretizeColumn(column, vals, sch, b) ==
    IF column \in DOMAIN b
    THEN LET v1 == IF column \in DOMAIN sch /\ "has_null" \in DOMAIN sch[column]
                   THEN Replace(vals, sch[column].null_value, sch[column].min - 1)
                   ELSE vals
         IN  IF ~Monotonic(b[column])
             THEN [status |-> "ValueError", values |-> v1]
             ELSE [status |-> "ok",
                   values |-> [r \in 1..Len(v1) |-> CutCode(v1[r], b[column])]]
    ELSE IF column \in DOMAIN sch
    THEN LET desc == sch[column] IN
         IF "values" \in DOMAIN desc
         THEN [status |-> "ok",
               values |-> [r \in 1..Len(vals) |-> CatCode(vals[r], desc.values)]]
         ELSE IF "min" \in DOMAIN desc
         THEN LET v1 == IF "has_null" \in DOMAIN desc
                        THEN Replace(vals, desc.null_value, desc.min - 1)
                        ELSE vals
              IN  [status |-> "ok",
                   values |-> [r \in 1..Len(v1) |-> v1[r] - desc.min]]
         ELSE [status |-> "ok", values |-> vals]
    ELSE [status |-> "ok", values |-> vals]

\* `for column in dataset` of discretize, from column i on: columns are
\* rewritten in order until one, the at-th, raises
RECURSIVE DiscretizeColumns(_, _, _, _)
DiscretizeColumns(tbl, i, sch, b) ==
    IF i > Len(tbl)
    THEN [status |-> "ok", value |-> tbl, at |-> 0]
    ELSE LET res == DiscretizeColumn(tbl[i].column, tbl[i].values, sch, b)
             t2  == [tbl EXCEPT ![i].values = res.values]
         IN  IF res.status # "ok"
             THEN [status |-> res.status, value |-> t2, at |-> i]
             ELSE DiscretizeColumns(t2, i + 1, sch, b)

\* AfterCall without the copy: the call always works on the caller's object
AfterCallInPlace(copy, callers, worked) == worked

\* the table the caller's DataFrame object holds after a call that worked on
\* `worked`: `if copy: dataset = dataset.copy()`
AfterCall(copy, callers, worked) == IF copy THEN callers ELSE worked

\* discretize(dataset, schema, bins_range, copy): the exception or the
\* returned table, and the caller's table after the call
discretize(tbl, sch, range, copy) ==
    LET cb == create_bins(range) IN
    IF cb.status # "ok"
    THEN [status |-> cb.status, value |-> <<>>, at |-> 0, callers |-> tbl]
    ELSE LET run == DiscretizeColumns(tbl, 1, sch, cb.value)
         IN  [status  |-> run.status,
              value   |-> IF run.status = "ok" THEN run.value ELSE <<>>,
              at      |-> run.at,
              callers |-> AfterCall(copy, tbl, run.value)]

\* -------------------------------------------------------- undo_discretize
\* bins[col] = bin.copy(); bins[col][-1] = bin[-2] + 1
FiniteProxy(bin) == [bin EXCEPT ![Len(bin)] = Plus(bin[Len(bin) - 1], 1)]

\* the bin tables the column loop of undo_discretize indexes
LocalBins(b, handle_inf) ==
    IF handle_inf THEN [c \in DOMAIN b |-> FiniteProxy(b[c])] ELSE b

\* the caller's bin tables after the call: the proxy goes to a copy
CallersBins(b, handle_inf) == b

\* UnknownColumn with `pass` in place of the raise
UnknownColumnPass(vals) == [status |-> "ok", values |-> vals]

\* `else: raise ValueError("Unknown column, ...")` of undo_discretize
UnknownColumn(vals) == [status |-> "ValueError", values |-> vals]

\* BinValue with the upper edge of the bin as its representative value
BinValueUpper(bin, code) ==
    IF IndexOk(Len(bin), code + 1) THEN NpIndex(bin, code + 1) ELSE NpIndex(bin, code)

\* bin[code]: the representative value of a bin is its lower edge
BinValue(bin, code) == NpIndex(bin, code)

\* body of the column loop of undo_discretize
UndoColumn(column, vals, sch, b) ==
    IF column \in DOMAIN b
    THEN IF \E r \in 1..Len(vals) : ~IndexOk(Len(b[column]), vals[r])
         THEN [status |-> "IndexError", values |-> vals]
         ELSE [status |-> "ok",
               values |-> [r \in 1..Len(vals) |-> BinValue(b[column], vals[r])]]
    ELSE IF column \in DOMAIN sch
    THEN LET desc == sch[column] IN
         IF "values" \in DOMAIN desc
         THEN IF \E r \in 1..Len(vals) : ~IndexOk(Len(desc.values), vals[r])
              THEN [status |-> "IndexError", values |-> vals]
              ELSE [status |-> "ok",
                    values |-> [r \in 1..Len(vals) |-> NpIndex(desc.values, vals[r])]]
         ELSE IF "min" \in DOMAIN desc
         THEN [status |-> "ok",
               values |-> [r \in 1..Len(vals) |-> Plus(vals[r], desc.min)]]
         ELSE UnknownColumn(vals)
    ELSE [status |-> "ok", values |-> vals]

\* `for column in dataset` of undo_discretize, from column i on
RECURSIVE UndoColumns(_, _, _, _)
UndoColumns(tbl, i, sch, b) ==
    IF i > Len(tbl)
    THEN [status |-> "ok", value |-> tbl, at |-> 0]
    ELSE LET res == UndoColumn(tbl[i].column, tbl[i].values, sch, b)
             t2  == [tbl EXCEPT ![i].values = res.values]
         IN  IF res.status # "ok"
             THEN [status |-> res.status, value |-> t2, at |-> i]
             ELSE UndoColumns(t2, i + 1, sch, b)

\* undo_discretize(dataset, schema, bins, copy, handle_inf): the exception or
\* the returned table, and the caller's table and bin table after the call
undo_discretize(tbl, sch, b, copy, handle_inf) ==
    LET run == UndoColumns(tbl, 1, sch, LocalBins(b, handle_inf))
    IN  [status  |-> run.status,
         value   |-> IF run.status = "ok" THEN run.value ELSE <<>>,
         at      |-> run.at,
         callers |-> AfterCall(copy, tbl, run.value),
         bins    |-> CallersBins(b, handle_inf)]

\* ------------------------------------------------------ the caller's data
\* schemas in the shape sdnist's schema files have: a categorical field, an
\* ordinal field with a null sentinel, an identifier field without `values`
\* or `min`, and a binned numeric field; EXTRA and HOUR are in no schema
SchemaA ==
    [RACE   |-> [values |-> <<1, 2, 6>>],
     AGE    |-> [min |-> 0, has_null |-> TRUE, null_value |-> 0 - 9],
     ID     |-> [kind |-> "ID"],
     INCTOT |-> [min |-> 0, has_null |-> TRUE, null_value |-> 0 - 9]]

SchemaB ==
    [RACE   |-> [values |-> <<6, 1>>],
     AGE    |-> [min |-> 3, has_null |-> TRUE, null_value |-> 2],
     ID     |-> [kind |-> "ID"],
     INCTOT |-> [min |-> 0]]

Schemas == {SchemaA, SchemaB}

Columns == {"RACE", "AGE", "ID", "EXTRA", "INCTOT", "HOUR"}

Continuous(fbm, lbm, bs) ==
    [first_bin_max |-> fbm, last_bin_min |-> lbm, bin_size |-> bs]

TimeOfDay(fbm, lbm, bs) ==
    [bin_type |-> "time", first_bin_max_hour |-> fbm,
     last_bin_min_hour |-> lbm, bin_size_minutes |-> bs]

BinsRange(c, t) == <<[field |-> "INCTOT", spec |-> c], [field |-> "HOUR", spec |-> t]>>

\* the time-of-day specification of the documentation's example
ExampleTime == TimeOfDay(0, 2, 30)

ContinuousSpecs ==
    {Continuous(fbm, lbm, bs) : fbm \in {0 - 5, 0, 10}, lbm \in {0, 10, 15, 25},
                                bs \in {0 - 10, 0 - 5, 0, 5, 10}}

TimeSpecs ==
    {TimeOfDay(fbm, lbm, bs) : fbm \in {0, 1}, lbm \in {0, 2}, bs \in {0 - 30, 0, 30, 45}}

\* every bin specification create_bins is applied to
AllBinsRanges ==
    {BinsRange(c, t) : c \in ContinuousSpecs, t \in TimeSpecs}
      \cup {<<[field |-> "HOUR", spec |-> t]>> : t \in TimeSpecs}

\* the bin specifications tables are encoded and decoded under: the usual
\* one, a degenerate one, a decreasing one and one with a zero step
TableBinsRanges ==
    {BinsRange(Continuous(0, 15, 10), ExampleTime),
     BinsRange(Continuous(10, 0, 10), ExampleTime),
     BinsRange(Continuous(10, 0, 0 - 5), ExampleTime),
     BinsRange(Continuous(0, 15, 0), ExampleTime)}

\* raw cell values per column
RawValues(c) ==
    CASE c = "RACE"   -> {1, 2, 6, 9}
      [] c = "AGE"    -> {0 - 9, 2, 42}
      [] c = "ID"     -> {7}
      [] c = "EXTRA"  -> {3}
      [] c = "INCTOT" -> {0 - 9, 0, 12, 99}
      [] c = "HOUR"   -> {0, 45, 130}

\* cell values of a coded table: codes and the -1 sentinel for the columns
\* that are decoded by an index, shifted values for AGE
CodeValues(c) ==
    CASE c \in {"RACE", "INCTOT", "HOUR"} -> (0 - 1)..MaxCode
      [] c = "AGE"                        -> {0 - 1, 0}
      [] c \in {"ID", "EXTRA"}            -> {0}

\* the columns of n rows of raw values, and of coded values
RawColumns(n) ==
    UNION {{[column |-> c, values |-> vs] : vs \in [1..n -> RawValues(c)]} : c \in Columns}

CodedColumns(n) ==
    UNION {{[column |-> c, values |-> vs] : vs \in [1..n -> CodeValues(c)]} : c \in Columns}

\* the tables of k columns of distinct names taken from cols
TablesOf(cols, k) ==
    {t \in [1..k -> cols] : \A i, j \in 1..k : i # j => t[i].column # t[j].column}

\* the raw and the coded tables: one row of 1..MaxCols columns, or one column
\* of 1..MaxRows rows
RawTables ==
    UNION ({TablesOf(RawColumns(1), k) : k \in 1..MaxCols}
             \cup {TablesOf(RawColumns(n), 1) : n \in 1..MaxRows})

CodedTables ==
    UNION ({TablesOf(CodedColumns(1), k) : k \in 1..MaxCols}
             \cup {TablesOf(CodedColumns(n), 1) : n \in 1..MaxRows})

NoOp == [name |-> "none", copy |-> FALSE, handle_inf |-> FALSE]
NoRet == [status |-> "none", value |-> <<>>, at |-> 0]

Init ==
    /\ schema \in Schemas
    /\ bins_range \in AllBinsRanges
    /\ bins = <<>>
    /\ \/ /\ bins_range \in TableBinsRanges
          /\ \/ dataset \in RawTables /\ stage = "raw"
             \/ dataset \in CodedTables /\ stage = "coded"
       \/ dataset = <<>> /\ stage = "raw"
    /\ origin = stage
    /\ raw = dataset
    /\ input = <<>>
    /\ ret = NoRet
    /\ op = NoOp

\* bins = create_bins(bins_range) in the caller
CreateBins ==
    /\ op.name \in {"none", "rebind"}
    /\ LET cb == create_bins(bins_range) IN
       /\ ret' = [status |-> cb.status, value |-> cb.value, at |-> cb.at]
       /\ bins' = IF cb.status = "ok" THEN cb.value ELSE bins
    /\ op' = [name |-> "create_bins", copy |-> FALSE, handle_inf |-> FALSE]
    /\ UNCHANGED <<schema, bins_range, dataset, stage, origin, raw, input>>

\* ret = discretize(dataset, schema, bins_range, copy)
Discretize(copy) ==
    /\ stage = "raw"
    /\ LET d == discretize(dataset, schema, bins_range, copy) IN
       /\ ret' = [status |-> d.status, value |-> d.value, at |-> d.at]
       /\ dataset' = d.callers
       /\ stage' = IF copy \/ (d.at = 0 /\ d.status # "ok") THEN stage
                   ELSE IF d.status = "ok" THEN "coded" ELSE "partial"
    /\ input' = dataset
    /\ op' = [name |-> "discretize", copy |-> copy, handle_inf |-> FALSE]
    /\ UNCHANGED <<schema, bins_range, bins, origin, raw>>

\* dataset = ret: the caller goes on with the table discretize returned
Rebind ==
    /\ op.name = "discretize"
    /\ ret.status = "ok"
    /\ dataset' = ret.value
    /\ stage' = "coded"
    /\ op' = [name |-> "rebind", copy |-> FALSE, handle_inf |-> FALSE]
    /\ UNCHANGED <<schema, bins_range, bins, origin, raw, input, ret>>

\* ret = undo_discretize(dataset, schema, bins, copy, handle_inf)
UndoDiscretize(copy, handle_inf) ==
    /\ stage = "coded"
    /\ LET u == undo_discretize(dataset, schema, bins, copy, handle_inf) IN
       /\ ret' = [status |-> u.status, value |-> u.value, at |-> u.at]
       /\ dataset' = u.callers
       /\ bins' = u.bins
       /\ stage' = IF copy THEN stage
                   ELSE IF u.status = "ok" THEN "decoded" ELSE "partial"
    /\ input' = dataset
    /\ op' = [name |-> "undo_discretize", copy |-> copy, handle_inf |-> handle_inf]
    /\ UNCHANGED <<schema, bins_range, origin, raw>>

Next ==
    \/ CreateBins
    \/ \E copy \in BOOLEAN : Discretize(copy)
    \/ Rebind
    \/ \E copy \in BOOLEAN, handle_inf \in BOOLEAN : UndoDiscretize(copy, handle_inf)

Spec == Init /\ [][Next]_vars

\* ------------------------------------------------------------ field kinds
FieldsOf(range) == {range[i].field : i \in 1..Len(range)}

\* no bin table entry, neither in the caller's bin table nor from bins_range
NotBinned(c) == c \notin DOMAIN bins /\ c \notin FieldsOf(bins_range)

Categorical(c) == NotBinned(c) /\ c \in DOMAIN schema /\ "values" \in DOMAIN schema[c]

OrdinalWithNull(c) ==
    /\ NotBinned(c) /\ c \in DOMAIN schema
    /\ "values" \notin DOMAIN schema[c]
    /\ {"min", "has_null", "null_value"} \subseteq DOMAIN schema[c]

\* in the schema with neither `values` nor `min`
Passthrough(c) ==
    /\ NotBinned(c) /\ c \in DOMAIN schema
    /\ "values" \notin DOMAIN schema[c] /\ "min" \notin DOMAIN schema[c]

\* absent from both the bin table and the schema
Unknown(c) == NotBinned(c) /\ c \notin DOMAIN schema

\* the cells of a table
Cells(tbl) == UNION {{<<i, r>> : r \in 1..Len(tbl[i].values)} : i \in 1..Len(tbl)}

Encoded == op.name = "discretize" /\ ret.status = "ok"
Decoded == op.name = "undo_discretize" /\ ret.status = "ok"

\* ret is undo_discretize(discretize(raw)): input holds the codes
RoundTrip == origin = "raw" /\ Decoded

\* -------------------------------------------------------------- properties
\* C1: a value of a categorical field's `values` is encoded to its 0-based
\* position in `values` and decoded back to itself.
C1_CategoricalRoundTrip ==
    RoundTrip =>
      \A x \in Cells(raw) :
        LET c == raw[x[1]].column
            v == raw[x[1]].values[x[2]]
            code == input[x[1]].values[x[2]]
        IN  (Categorical(c) /\ v \in Range(schema[c].values)) =>
              /\ code \in 0..(Len(schema[c].values) - 1)
              /\ schema[c].values[code + 1] = v
              /\ ret.value[x[1]].values[x[2]] = v

C1_Witness ==
    /\ RoundTrip
    /\ \E x \in Cells(raw) :
         /\ Categorical(raw[x[1]].column)
         /\ raw[x[1]].values[x[2]] \in Range(schema[raw[x[1]].column].values)
         /\ input[x[1]].values[x[2]] = 2
         /\ ret.value[x[1]].values[x[2]] = raw[x[1]].values[x[2]]

\* C2: the null sentinel of an ordinal field is encoded to -1 and decoded
\* back to null_value.
C2_NullRoundTrip ==
    RoundTrip =>
      \A x \in Cells(raw) :
        LET c == raw[x[1]].column IN
        (OrdinalWithNull(c) /\ raw[x[1]].values[x[2]] = schema[c].null_value) =>
          /\ input[x[1]].values[x[2]] = 0 - 1
          /\ ret.value[x[1]].values[x[2]] = schema[c].null_value

\* C3: a categorical value absent from `values` is encoded to -1, and code -1
\* is never decoded to an element of `values`.
C3_UnmappedCategory ==
    /\ Encoded =>
         \A x \in Cells(input) :
           LET c == input[x[1]].column IN
           (Categorical(c) /\ input[x[1]].values[x[2]] \notin Range(schema[c].values))
             => ret.value[x[1]].values[x[2]] = 0 - 1
    /\ Decoded =>
         \A x \in Cells(input) :
           LET c == input[x[1]].column IN
           (Categorical(c) /\ input[x[1]].values[x[2]] = 0 - 1)
             => ret.value[x[1]].values[x[2]] \notin Range(schema[c].values)

C5_Passthrough ==
    op.name \in {"discretize", "undo_discretize"} =>
      \A i \in 1..Len(input) :
        Passthrough(input[i].column) =>
          /\ ret.at # i
          /\ ret.status = "ok" => ret.value[i] = input[i]

\* the bin table after the documented finite-proxy substitution: the last
\* element replaced by secondToLast + 1
ProxyTable(b) ==
    [k \in 1..Len(b) |-> IF k = Len(b) THEN Plus(b[Len(b) - 1], 1) ELSE b[k]]

\* code and decoded value d lie in one bin of the table T
SameBin(T, code, d) ==
    /\ code \in 0..(Len(T) - 2)
    /\ T[code + 1] <= d
    /\ d < T[code + 2]

\* C6 as stated: for every bin table of create_bins, the degenerate one
\* included, a finite raw value's code and its decoded value d satisfy
\* T[code] <= d < T[code+1], T the table after the finite-proxy substitution.
C6_SameBinEveryTable ==
    (RoundTrip /\ op.handle_inf) =>
      \A x \in Cells(raw) :
        LET c == raw[x[1]].column IN
        c \in DOMAIN bins =>
          SameBin(ProxyTable(bins[c]), input[x[1]].values[x[2]],
                  ret.value[x[1]].values[x[2]])

\* C6 amended: the same, for every bin table of create_bins that has at least
\* one interior cut point (every table but the degenerate [-inf, +inf]).
C6_SameBin ==
    (RoundTrip /\ op.handle_inf) =>
      \A x \in Cells(raw) :
        LET c == raw[x[1]].column IN
        (c \in DOMAIN bins /\ Len(bins[c]) > 2) =>
          SameBin(ProxyTable(bins[c]), input[x[1]].values[x[2]],
                  ret.value[x[1]].values[x[2]])

C6_Witness ==
    /\ RoundTrip /\ op.handle_inf
    /\ \E x \in Cells(raw) :
         LET c == raw[x[1]].column IN
         /\ c \in DOMAIN bins /\ Len(bins[c]) > 2
         /\ input[x[1]].values[x[2]] = Len(bins[c]) - 2
         /\ ret.value[x[1]].values[x[2]] = bins[c][Len(bins[c]) - 1]
         /\ raw[x[1]].values[x[2]] > ret.value[x[1]].values[x[2]]

\* the bin table of the documentation's time-of-day example
ExampleTable == <<NegInf, 0, 30, 100, 130, PosInf>>

\* C7: with handle_inf, no code in -1..len(binTable)-2 of a binned column is
\* decoded to an infinite value, and code 0 of the example table is decoded
\* to 0.
C7_NoInfiniteOutput ==
    (Decoded /\ op.handle_inf) =>
      \A x \in Cells(input) :
        LET c    == input[x[1]].column
            code == input[x[1]].values[x[2]]
            d    == ret.value[x[1]].values[x[2]]
        IN  (c \in DOMAIN bins /\ code \in (0 - 1)..(Len(bins[c]) - 2)) =>
              /\ ~IsInf(d)
              /\ (bins[c] = ExampleTable /\ code = 0) => d = 0

\* the shape C8 gives the bin table b of the continuous specification s
BinTableShape(b, s) ==
    /\ Len(b) >= 2
    /\ b[1] = NegInf
    /\ b[Len(b)] = PosInf
    /\ \A j \in 1..(Len(b) - 1) : b[j] < b[j + 1]
    /\ \A j \in 2..(Len(b) - 1) :
         b[j] = s.first_bin_max + (j - 2) * s.bin_size /\ b[j] < s.last_bin_min
    /\ s.first_bin_max + (Len(b) - 2) * s.bin_size >= s.last_bin_min
    /\ s.first_bin_max >= s.last_bin_min => b = <<NegInf, PosInf>>

\* create_bins has run: it raised at no continuous entry whose bin_size is
\* at least minSize, and the table of every such entry has the shape of C8
ContinuousShape(minSize) ==
    op.name = "create_bins" =>
      \A i \in 1..Len(bins_range) :
        LET s == bins_range[i].spec IN
        ("bin_type" \notin DOMAIN s /\ s.bin_size >= minSize) =>
          /\ ret.at # i
          /\ ret.status = "ok" => BinTableShape(ret.value[bins_range[i].field], s)

\* the least bin_size of the continuous specifications
MinBinSize == 0 - 10

\* C8 as stated: for any first_bin_max, last_bin_min and bin_size create_bins
\* raises nothing and returns -inf, the points first_bin_max + k*bin_size
\* below last_bin_min, +inf, strictly increasing; [-inf, +inf] when
\* first_bin_max >= last_bin_min.
C8_ShapeAnyBinSize == ContinuousShape(MinBinSize)

\* C8 amended: the same for integer first_bin_max and last_bin_min and every
\* integer bin_size >= 1.
C8_BinTableShape == ContinuousShape(1)

C8_Witness ==
    /\ op.name = "create_bins" /\ ret.status = "ok"
    /\ \E i \in 1..Len(bins_range) :
         LET s == bins_range[i].spec IN
         /\ "bin_type" \notin DOMAIN s /\ s.bin_size >= 1
         /\ Len(ret.value[bins_range[i].field]) >= 5
         /\ bins = ret.value

\* the example: its bin table, and the code of the raw value 45
ExampleCode(code45) ==
    SpecOf(bins_range, "HOUR") = ExampleTime =>
      /\ (op.name = "create_bins" /\ ret.status = "ok") => ret.value["HOUR"] = ExampleTable
      /\ Encoded =>
           \A x \in Cells(input) :
             (input[x[1]].column = "HOUR" /\ input[x[1]].values[x[2]] = 45)
               => ret.value[x[1]].values[x[2]] = code45

\* C9 as stated: the example specification yields [-inf, 0, 30, 100, 130, +inf]
\* and the raw value 45 is encoded to code 1.
C9_ExampleCodeOne == ExampleCode(1)

\* C9 amended: the example specification yields [-inf, 0, 30, 100, 130, +inf]
\* and the raw value 45, in the bin [30, 100), is encoded to code 2, the
\* 0-based index of that bin in the table, whose bin 0 is [-inf, 0).
C9_ExampleCode == ExampleCode(2)

C9_Witness ==
    /\ Encoded
    /\ SpecOf(bins_range, "HOUR") = ExampleTime
    /\ \E x \in Cells(input) :
         /\ input[x[1]].column = "HOUR" /\ input[x[1]].values[x[2]] = 45
         /\ ret.value[x[1]].values[x[2]] = 2

\* C10: a call of discretize or undo_discretize with copy=True leaves the
\* caller's table as it was, and with any copy setting leaves the schema, the
\* bin specification and the caller's bin table as they were.
C10_ReadOnlyInputs ==
    [][op'.name \in {"discretize", "undo_discretize"} =>
         /\ op'.copy => dataset' = dataset
         /\ schema' = schema
         /\ bins_range' = bins_range
         /\ bins' = bins]_vars

C10_Witness ==
    /\ Decoded /\ op.copy /\ op.handle_inf
    /\ dataset = input
    /\ ret.value # dataset
    /\ \E i \in 1..Len(input) :
         /\ input[i].column \in DOMAIN bins
         /\ \E r \in 1..Len(input[i].values) :
              /\ input[i].values[r] = 0 - 1
              /\ ret.value[i].values[r] # PosInf
    /\ \A c \in DOMAIN bins : bins[c][Len(bins[c])] = PosInf

====
